---- MODULE Spec2Model ----
(***************************************************************************)
(* HookFs (src/hookfs/mod.rs): a passthrough FUSE filesystem.  The model   *)
(* holds the two tables of the HookFs instance, the part of the native     *)
(* filesystem the handlers reach through stat/open/lseek/read, and a       *)
(* record of the request being served and of the replies its handler made. *)
(* The Filesystem trait hands every handler `&mut self`, so one handler    *)
(* runs at a time: each handler is one action.                             *)
(***************************************************************************)
EXTENDS Integers, Sequences, FiniteSets, TLC

VARIABLES
    tree,          \* native namespace: absolute path -> file object or NoFile
    data,          \* native content of the regular files
    fds,           \* the process's descriptor table: fd -> [file, acc, pos]
    inode_map,     \* HookFs.inode_map: inode number -> native path
    opened_files,  \* HookFs.opened_files: sequence of descriptors
    last,          \* the request being served: [op, args, replies, panicked]
    lastEntry,     \* attribute record of the latest successful lookup, kept
                   \* while the native filesystem has not changed since
    dev,           \* device bootstrap: the node at /dev/fuse, the umask of
                   \* the process and what the last bootstrap call returned
    inflight       \* read requests the kernel has sent and not yet seen
                   \* answered: request -> [pc, fh, offset, size, reply]

vars == <<tree, data, fds, inode_map, opened_files, last, lastEntry, dev, inflight>>

(***************************************************************************)
(* Bounds and input sets                                                   *)
(***************************************************************************)
\* descriptor limit of the process (RLIMIT_NOFILE): open fails with EMFILE
MaxOpen == 2

Names == {"a", "b"}
\* a name holding an interior NUL byte: nix cannot turn it into a C string
NulName == "x\\0y"
Parents == {1, 7}
Sizes == {2, 4}
Offsets == {-1, 0, 3}

(***************************************************************************)
(* libc constants                                                          *)
(***************************************************************************)
S_IFMT == 61440
S_IFSOCK == 49152
S_IFLNK == 40960
S_IFREG == 32768
S_IFBLK == 24576
S_IFDIR == 16384
S_IFCHR == 8192
S_IFIFO == 4096

ENOENT == 2
EBADF == 9
ENXIO == 6
EINVAL == 22
EMFILE == 24
ESPIPE == 29
ENOSYS == 38
ENOSPC == 28
EISDIR == 21

O_RDONLY == 0
O_WRONLY == 1
O_ACCMODE == 3
O_CREAT == 64
O_TRUNC == 512
O_APPEND == 1024
\* the bit the handler calls "magic" (the kernel's O_LARGEFILE)
MagicFlag == 32768
\* a bit no OFlag constant names (the kernel's FMODE_EXEC)
FmodeExec == 32

RECURSIVE BitAnd(_, _)
BitAnd(a, b) ==
    IF a = 0 \/ b = 0 THEN 0
    ELSE (a % 2) * (b % 2) + 2 * BitAnd(a \div 2, b \div 2)

\* `a & !b` on u32 words: the bits of a that are not bits of b
AndNot(a, b) == a - BitAnd(a, b)

Min(a, b) == IF a <= b THEN a ELSE b
Max(a, b) == IF a >= b THEN a ELSE b

(***************************************************************************)
(* The native filesystem                                                   *)
(***************************************************************************)
NoFile == "none"
RegularFiles == {"R1", "R2"}
Files == RegularFiles \cup {"P", "U"}
\* the regular file an open with O_CREAT brings into existence
NewFile == "N"
\* a directory of the original root
DirFile == "D"

\* st_ino and st_mode of each native file object: two regular files, a
\* named pipe, and an object whose type bits name none of the seven types
FileIno(f) ==
    CASE f = "R1" -> 11
      [] f = "R2" -> 12
      [] f = "P" -> 13
      [] f = "U" -> 14
      [] f = NewFile -> 15
      [] f = DirFile -> 16

FileMode(f) ==
    CASE f = "R1" -> S_IFREG + 420
      [] f = "R2" -> S_IFREG + 2541
      [] f = "P" -> S_IFIFO + 384
      [] f = "U" -> 384
      [] f = NewFile -> S_IFREG + 4095
      [] f = DirFile -> S_IFDIR + 493

original_path == <<"orig">>
mount_path == <<"mnt">>

Paths == {Append(original_path, n) : n \in Names}

SysErr(e) == [ok |-> FALSE, err |-> [sys |-> TRUE, errno |-> e]]
\* nix::Error::InvalidPath: an error that carries no errno
InvalidPath == [ok |-> FALSE, err |-> [sys |-> FALSE]]

HasNul(path) == \E i \in 1..Len(path) : path[i] = NulName

StatOf(f) ==
    [st_ino |-> FileIno(f),
     st_mode |-> FileMode(f),
     st_size |-> IF f \in DOMAIN data THEN Len(data[f]) ELSE 0]

\* stat(2) through nix::sys::stat::stat
NativeStat(path) ==
    IF HasNul(path) THEN InvalidPath
    ELSE IF path \notin DOMAIN tree \/ tree[path] = NoFile THEN SysErr(ENOENT)
    ELSE [ok |-> TRUE, stat |-> StatOf(tree[path])]

(***************************************************************************)
(* Attribute Translator and Error Translator                               *)
(***************************************************************************)
\* a translator whose match falls back to a regular file
KindOfDefaultRegular(fmt) ==
    CASE fmt = S_IFBLK -> "BlockDevice"
      [] fmt = S_IFCHR -> "CharDevice"
      [] fmt = S_IFDIR -> "Directory"
      [] fmt = S_IFIFO -> "NamedPipe"
      [] fmt = S_IFLNK -> "Symlink"
      [] fmt = S_IFSOCK -> "Socket"
      [] OTHER -> "RegularFile"

\* match stat.st_mode & libc::S_IFMT; "None" is the `_ => return None` arm
KindOf(fmt) ==
    CASE fmt = S_IFBLK -> "BlockDevice"
      [] fmt = S_IFCHR -> "CharDevice"
      [] fmt = S_IFDIR -> "Directory"
      [] fmt = S_IFIFO -> "NamedPipe"
      [] fmt = S_IFLNK -> "Symlink"
      [] fmt = S_IFREG -> "RegularFile"
      [] fmt = S_IFSOCK -> "Socket"
      [] OTHER -> "None"

\* Option<FileAttr>: [some |-> FALSE] is None.  `0777` is a decimal literal.
convert_libc_stat_to_fuse_stat(stat) ==
    LET kind == KindOf(BitAnd(stat.st_mode, S_IFMT))
    IN  IF kind = "None" THEN [some |-> FALSE]
        ELSE [some |-> TRUE,
              attr |-> [ino |-> stat.st_ino,
                        size |-> stat.st_size,
                        kind |-> kind,
                        perm |-> BitAnd(stat.st_mode, 777) % 65536]]

\* err.as_errno().map(|errno| errno as i32).unwrap_or(-1)
ErrorTranslate(err) == IF err.sys THEN err.errno ELSE -1

(***************************************************************************)
(* Replies and the record of the request being served                      *)
(***************************************************************************)
ReplyEntry(attr, generation) ==
    [type |-> "entry", attr |-> attr, generation |-> generation]
ReplyAttr(attr) == [type |-> "attr", attr |-> attr]
ReplyError(errno) == [type |-> "error", errno |-> errno]
ReplyOpened(fh, flags) == [type |-> "opened", fh |-> fh, flags |-> flags]
ReplyData(buf) == [type |-> "data", data |-> buf]
ReplyOk == [type |-> "ok"]
ReplyStatfs(blocks, bfree, bavail, files, ffree, bsize, namelen, frsize) ==
    [type |-> "statfs", blocks |-> blocks, bfree |-> bfree, bavail |-> bavail,
     files |-> files, ffree |-> ffree, bsize |-> bsize, namelen |-> namelen,
     frsize |-> frsize]

Idle == [op |-> "idle", args |-> <<>>, replies |-> <<>>, panicked |-> FALSE]
\* the handler ran to its end having made these reply calls
Served(op, args, replies) ==
    [op |-> op, args |-> args, replies |-> replies, panicked |-> FALSE]
\* the handler panicked (an index out of range, a missing key) before any
\* reply call: it never returns to the session loop
Panicked(op, args) ==
    [op |-> op, args |-> args, replies |-> <<>>, panicked |-> TRUE]

NoEntry == [some |-> FALSE]

\* entry(ino).or_insert(path): an existing entry keeps its old path
InodeMapInsertIfAbsent(map, ino, path) ==
    [i \in DOMAIN map \cup {ino} |-> IF i \in DOMAIN map THEN map[i] ELSE path]

\* an insert into a table that holds the latest inode alone
InodeMapInsertEvicting(map, ino, path) == [i \in {ino} |-> path]

\* self.inode_map.insert(stat.ino, source_mount)
InodeMapInsert(map, ino, path) ==
    [i \in DOMAIN map \cup {ino} |-> IF i = ino THEN path ELSE map[i]]

(***************************************************************************)
(* lookup and getattr                                                      *)
(***************************************************************************)
\* a path composed under the path registered for the parent inode
LookupPathUnderParent(parent, name) ==
    IF parent \in DOMAIN inode_map THEN Append(inode_map[parent], name)
    ELSE Append(original_path, name)

\* self.original_path.join(name)
LookupPath(parent, name) == Append(original_path, name)

\* what lookup stats, replies and leaves in the table, as a function of the
\* state: [path, replies, inode_map, lastEntry]
LookupOutcome(parent, name) ==
    LET source_mount == LookupPath(parent, name)
        st == NativeStat(source_mount)
    IN  IF st.ok
        THEN LET conv == convert_libc_stat_to_fuse_stat(st.stat)
             IN  IF conv.some
                 THEN [path |-> source_mount,
                       replies |-> <<ReplyEntry(conv.attr, 0)>>,
                       inode_map |-> InodeMapInsert(inode_map, conv.attr.ino, source_mount),
                       lastEntry |-> [some |-> TRUE, attr |-> conv.attr]]
                 ELSE [path |-> source_mount,
                       replies |-> <<ReplyError(-1)>>,
                       inode_map |-> inode_map,
                       lastEntry |-> lastEntry]
        ELSE [path |-> source_mount,
              replies |-> <<ReplyError(ErrorTranslate(st.err))>>,
              inode_map |-> inode_map,
              lastEntry |-> lastEntry]

lookup(parent, name) ==
    LET out == LookupOutcome(parent, name)
    IN  /\ last.op = "idle"
        /\ inode_map' = out.inode_map
        /\ last' = Served("lookup", [parent |-> parent, name |-> name], out.replies)
        /\ lastEntry' = out.lastEntry
        /\ UNCHANGED <<dev, inflight, tree, data, fds, opened_files>>

forget(ino, nlookup) ==
    /\ last.op = "idle"
    /\ last' = Served("forget", [ino |-> ino], <<>>)
    /\ UNCHANGED <<dev, inflight, tree, data, fds, inode_map, opened_files, lastEntry>>

getattr(ino) ==
    /\ last.op = "idle"
    /\ IF ino \notin DOMAIN inode_map
       THEN \* self.inode_map[&ino] panics on a missing key
            last' = Panicked("getattr", [ino |-> ino])
       ELSE LET st == NativeStat(inode_map[ino])
            IN  IF st.ok
                THEN LET conv == convert_libc_stat_to_fuse_stat(st.stat)
                     IN  IF conv.some
                         THEN last' = Served("getattr", [ino |-> ino], <<ReplyAttr(conv.attr)>>)
                         ELSE last' = Served("getattr", [ino |-> ino], <<ReplyError(-1)>>)
                ELSE last' = Served("getattr", [ino |-> ino],
                                    <<ReplyError(ErrorTranslate(st.err))>>)
    /\ UNCHANGED <<dev, inflight, tree, data, fds, inode_map, opened_files, lastEntry>>

(***************************************************************************)
(* Native open, lseek and read                                             *)
(***************************************************************************)
\* the lowest descriptor number not in use
LowestFreeFd == CHOOSE n \in 0..Cardinality(DOMAIN fds) :
                    /\ n \notin DOMAIN fds
                    /\ \A m \in 0..(n - 1) : m \in DOMAIN fds

\* every bit some nix OFlag constant names (Linux)
OFlagAll ==
    3 + 64 + 128 + 256 + 512 + 1024 + 2048 + 4096 + 8192 + 16384
      + 65536 + 131072 + 262144 + 524288 + 1048576 + 2097152 + 4194304

\* OFlag::from_bits(bits as i32): None when a bit outside OFlagAll is set
OFlag_from_bits(bits) ==
    IF AndNot(bits, OFlagAll) # 0 THEN [some |-> FALSE]
    ELSE [some |-> TRUE, flags |-> bits]

\* the new file is linked under a name or held open
NewFileInUse ==
    \/ \E p \in DOMAIN tree : tree[p] = NewFile
    \/ \E d \in DOMAIN fds : fds[d].file = NewFile

\* open(2) through nix::fcntl::open with Mode::all(): the descriptor, and
\* the namespace and the content afterwards.  O_CREAT on a missing name
\* creates an empty regular file (the filesystem has room for one), O_TRUNC
\* with write access empties a regular file.
NativeOpen(path, oflag) ==
    LET acc == BitAnd(oflag, O_ACCMODE)
    IN  IF HasNul(path) THEN InvalidPath
        ELSE IF Cardinality(DOMAIN fds) >= MaxOpen THEN SysErr(EMFILE)
        ELSE IF path \notin DOMAIN tree THEN SysErr(ENOENT)
        ELSE IF tree[path] = NoFile
        THEN IF BitAnd(oflag, O_CREAT) = 0 THEN SysErr(ENOENT)
             ELSE IF NewFileInUse THEN SysErr(ENOSPC)
             ELSE [ok |-> TRUE,
                   fd |-> LowestFreeFd,
                   desc |-> [file |-> NewFile, acc |-> acc, pos |-> 0],
                   tree |-> [tree EXCEPT ![path] = NewFile],
                   data |-> [data EXCEPT ![NewFile] = <<>>]]
        ELSE IF tree[path] = "U" THEN SysErr(ENXIO)
        ELSE IF tree[path] = DirFile /\ acc # O_RDONLY THEN SysErr(EISDIR)
        ELSE [ok |-> TRUE,
              fd |-> LowestFreeFd,
              desc |-> [file |-> tree[path], acc |-> acc, pos |-> 0],
              tree |-> tree,
              data |-> IF /\ BitAnd(oflag, O_TRUNC) # 0
                          /\ acc # O_RDONLY
                          /\ tree[path] \in DOMAIN data
                       THEN [data EXCEPT ![tree[path]] = <<>>]
                       ELSE data]

\* lseek(fd, offset, SEEK_SET)
NativeLseek(fd, offset) ==
    IF fd \notin DOMAIN fds THEN SysErr(EBADF)
    ELSE IF fds[fd].file = "P" THEN SysErr(ESPIPE)
    ELSE IF offset < 0 THEN SysErr(EINVAL)
    ELSE [ok |-> TRUE, pos |-> offset]

\* read(fd, buf) of a buffer of `size` zero bytes, the descriptor standing at
\* `pos`: the count read and the buffer afterwards
NativeRead(fd, pos, size) ==
    IF fd \notin DOMAIN fds THEN SysErr(EBADF)
    ELSE IF fds[fd].acc = O_WRONLY THEN SysErr(EBADF)
    ELSE IF fds[fd].file = DirFile THEN SysErr(EISDIR)
    ELSE LET content == data[fds[fd].file]
             n == Min(size, Max(0, Len(content) - pos))
         IN  [ok |-> TRUE,
              n |-> n,
              buf |-> [i \in 1..size |-> IF i <= n THEN content[pos + i] ELSE 0]]

(***************************************************************************)
(* open and read                                                           *)
(***************************************************************************)
OpenFlags == {O_RDONLY, O_WRONLY, O_WRONLY + O_APPEND + MagicFlag, FmodeExec}

\* a filter that clears the magic bit and forgets O_APPEND
SanitizeFlagsKeepAppend(flags) == AndNot(flags, MagicFlag)

\* flags & (!(libc::O_APPEND as u32)) & (!0x8000)
SanitizeFlags(flags) == AndNot(AndNot(flags, O_APPEND), MagicFlag)

\* a handle that is the length of the table after the push
HandleOfLength(table) == Len(table)

\* (self.opened_files.len() - 1) as u64, after the push
HandleOf(table) == Len(table) - 1

\* the native open calls a handler made: [path, oflag]
NativeCalls(calls) == [native |-> calls]

open(ino, flags) ==
    LET filtered_flags == SanitizeFlags(flags)
        oflag == OFlag_from_bits(filtered_flags)
        args == [ino |-> ino, flags |-> flags]
        call == IF oflag.some /\ ino \in DOMAIN inode_map
                THEN <<[path |-> inode_map[ino], oflag |-> oflag.flags]>>
                ELSE <<>>
    IN  /\ last.op = "idle"
        /\ IF ~oflag.some
           THEN /\ last' = Served("open", args, <<ReplyError(-1)>>) @@ NativeCalls(call)
                /\ UNCHANGED <<fds, opened_files, tree, data, lastEntry>>
           ELSE IF ino \in DOMAIN inode_map
           THEN LET res == NativeOpen(inode_map[ino], oflag.flags)
                IN  IF res.ok
                    THEN /\ fds' = [d \in DOMAIN fds \cup {res.fd} |->
                                       IF d = res.fd THEN res.desc ELSE fds[d]]
                         /\ opened_files' = Append(opened_files, res.fd)
                         /\ tree' = res.tree
                         /\ data' = res.data
                         /\ lastEntry' = IF res.tree = tree /\ res.data = data
                                         THEN lastEntry ELSE NoEntry
                         /\ last' = Served("open", args,
                                           <<ReplyOpened(HandleOf(opened_files'), flags)>>)
                                     @@ NativeCalls(call)
                    ELSE /\ last' = Served("open", args,
                                           <<ReplyError(ErrorTranslate(res.err))>>)
                                     @@ NativeCalls(call)
                         /\ UNCHANGED <<fds, opened_files, tree, data, lastEntry>>
           ELSE /\ last' = Served("open", args, <<ReplyError(-1)>>) @@ NativeCalls(call)
                /\ UNCHANGED <<fds, opened_files, tree, data, lastEntry>>
        /\ UNCHANGED <<dev, inflight, inode_map>>

\* a read whose seek moves one position shared by every descriptor
ReadOutcomeSharedOffset(ino, fh, offset, size) ==
    LET args == [ino |-> ino, fh |-> fh, offset |-> offset, size |-> size]
        AllAt(pos) == [d \in DOMAIN fds |-> [fds[d] EXCEPT !.pos = pos]]
    IN  IF fh >= Len(opened_files)
        THEN [fds |-> fds, last |-> Panicked("read", args)]
        ELSE LET fd == opened_files[fh + 1]
                 sk == NativeLseek(fd, offset)
             IN  IF ~sk.ok
                 THEN [fds |-> fds,
                       last |-> Served("read", args, <<ReplyError(ErrorTranslate(sk.err))>>)]
                 ELSE LET rd == NativeRead(fd, sk.pos, size)
                      IN  IF ~rd.ok
                          THEN [fds |-> AllAt(sk.pos),
                                last |-> Served("read", args,
                                                <<ReplyError(ErrorTranslate(rd.err))>>)]
                          ELSE [fds |-> AllAt(sk.pos + rd.n),
                                last |-> Served("read", args, <<ReplyData(rd.buf)>>)]

\* what read does with the descriptor table and what it replies, as a
\* function of the state: [fds, last]
ReadOutcome(ino, fh, offset, size) ==
    LET args == [ino |-> ino, fh |-> fh, offset |-> offset, size |-> size]
    IN  IF fh >= Len(opened_files)
        THEN \* self.opened_files[fh as usize] panics out of range
             [fds |-> fds, last |-> Panicked("read", args)]
        ELSE LET fd == opened_files[fh + 1]
                 sk == NativeLseek(fd, offset)
             IN  IF ~sk.ok
                 THEN [fds |-> fds,
                       last |-> Served("read", args, <<ReplyError(ErrorTranslate(sk.err))>>)]
                 ELSE LET rd == NativeRead(fd, sk.pos, size)
                      IN  IF ~rd.ok
                          THEN [fds |-> [fds EXCEPT ![fd].pos = sk.pos],
                                last |-> Served("read", args,
                                                <<ReplyError(ErrorTranslate(rd.err))>>)]
                          ELSE [fds |-> [fds EXCEPT ![fd].pos = sk.pos + rd.n],
                                last |-> Served("read", args, <<ReplyData(rd.buf)>>)]

read(ino, fh, offset, size) ==
    /\ last.op = "idle"
    /\ fds' = ReadOutcome(ino, fh, offset, size).fds
    /\ last' = ReadOutcome(ino, fh, offset, size).last
    /\ UNCHANGED <<dev, inflight, tree, data, inode_map, opened_files, lastEntry>>

(***************************************************************************)
(* Handlers that only reply                                                *)
(***************************************************************************)
ReplyOnly(op, args, reply) ==
    /\ last.op = "idle"
    /\ last' = Served(op, args, <<reply>>)
    /\ UNCHANGED <<dev, inflight, tree, data, fds, inode_map, opened_files, lastEntry>>

\* a release that closes the descriptor of the handle
release_closing(fh) ==
    /\ last.op = "idle"
    /\ last' = Served("release", [fh |-> fh], <<ReplyOk>>)
    /\ fds' = IF fh < Len(opened_files)
              THEN [d \in DOMAIN fds \ {opened_files[fh + 1]} |-> fds[d]]
              ELSE fds
    /\ UNCHANGED <<dev, inflight, tree, data, inode_map, opened_files, lastEntry>>

release(fh) == ReplyOnly("release", [fh |-> fh], ReplyOk)
opendir(ino, flags) == ReplyOnly("opendir", [ino |-> ino, flags |-> flags], ReplyOpened(0, 0))
releasedir == ReplyOnly("releasedir", <<>>, ReplyOk)
statfs == ReplyOnly("statfs", <<>>, ReplyStatfs(0, 0, 0, 0, 0, 512, 255, 0))

setattr == ReplyOnly("setattr", <<>>, ReplyError(ENOSYS))
readlink == ReplyOnly("readlink", <<>>, ReplyError(ENOSYS))
mknod == ReplyOnly("mknod", <<>>, ReplyError(ENOSYS))
mkdir == ReplyOnly("mkdir", <<>>, ReplyError(ENOSYS))
unlink == ReplyOnly("unlink", <<>>, ReplyError(ENOSYS))
rmdir == ReplyOnly("rmdir", <<>>, ReplyError(ENOSYS))
symlink == ReplyOnly("symlink", <<>>, ReplyError(ENOSYS))
rename == ReplyOnly("rename", <<>>, ReplyError(ENOSYS))
link == ReplyOnly("link", <<>>, ReplyError(ENOSYS))
\* a write that acknowledges the bytes without writing them
write_acknowledged == ReplyOnly("write", <<>>, [type |-> "written", size |-> 0])

write == ReplyOnly("write", <<>>, ReplyError(ENOSYS))
flush == ReplyOnly("flush", <<>>, ReplyError(ENOSYS))
fsync == ReplyOnly("fsync", <<>>, ReplyError(ENOSYS))
readdir == ReplyOnly("readdir", <<>>, ReplyError(ENOSYS))
fsyncdir == ReplyOnly("fsyncdir", <<>>, ReplyError(ENOSYS))
setxattr == ReplyOnly("setxattr", <<>>, ReplyError(ENOSYS))
getxattr == ReplyOnly("getxattr", <<>>, ReplyError(ENOSYS))
listxattr == ReplyOnly("listxattr", <<>>, ReplyError(ENOSYS))
removexattr == ReplyOnly("removexattr", <<>>, ReplyError(ENOSYS))
access == ReplyOnly("access", <<>>, ReplyError(ENOSYS))
create == ReplyOnly("create", <<>>, ReplyError(ENOSYS))
getlk == ReplyOnly("getlk", <<>>, ReplyError(ENOSYS))
setlk == ReplyOnly("setlk", <<>>, ReplyError(ENOSYS))
bmap == ReplyOnly("bmap", <<>>, ReplyError(ENOSYS))

UnimplementedOps ==
    {"setattr", "readlink", "mknod", "mkdir", "unlink", "rmdir", "symlink",
     "rename", "link", "write", "flush", "fsync", "readdir", "fsyncdir",
     "setxattr", "getxattr", "listxattr", "removexattr", "access", "create",
     "getlk", "setlk", "bmap"}

(***************************************************************************)
(* The session loop and the other users of the native filesystem           *)
(***************************************************************************)
\* the handler has returned: the session loop takes the next request
HandlerReturn ==
    /\ last.op # "idle"
    /\ ~last.panicked
    /\ last' = Idle
    /\ UNCHANGED <<dev, inflight, tree, data, fds, inode_map, opened_files, lastEntry>>

\* another process removes a name of the original tree
NativeUnlink(path) ==
    /\ last.op = "idle"
    /\ tree[path] # NoFile
    /\ tree' = [tree EXCEPT ![path] = NoFile]
    /\ lastEntry' = NoEntry
    /\ UNCHANGED <<dev, inflight, data, fds, inode_map, opened_files, last>>

\* another process renames src over dst
NativeRename(src, dst) ==
    /\ last.op = "idle"
    /\ src # dst
    /\ tree[src] # NoFile
    /\ tree[src] # tree[dst]
    /\ tree' = [tree EXCEPT ![dst] = tree[src], ![src] = NoFile]
    /\ lastEntry' = NoEntry
    /\ UNCHANGED <<dev, inflight, data, fds, inode_map, opened_files, last>>

(***************************************************************************)
(* Device bootstrap (src/fuse_device.rs)                                   *)
(***************************************************************************)
EEXIST == 17
\* mode 0o666 of Mode::from_bits_unchecked(0o666)
FuseNodeMode == 438
\* device numbers: makedev(10, 229) of the fuse device, and two others
Devs == {2789, 2790, 259}
\* umask of the calling process: 0, 0o022, 0o077
Umasks == {0, 18, 63}

NoNode == [exists |-> FALSE]
Node(kind, perm, rdev) == [exists |-> TRUE, kind |-> kind, perm |-> perm, rdev |-> rdev]
\* the nodes /dev/fuse may be when bootstrap starts
Nodes ==
    {NoNode} \cup {Node(k, AndNot(FuseNodeMode, u), d) :
                       k \in {S_IFCHR, S_IFREG}, u \in Umasks, d \in Devs}

NotCalled == [called |-> FALSE]
Returned(fn, arg, res) == [called |-> TRUE, fn |-> fn, arg |-> arg, res |-> res]
Ok(v) == [ok |-> TRUE, value |-> v]

\* stat("/dev/fuse")
NativeStatFuse ==
    IF dev.node.exists THEN [ok |-> TRUE, st_rdev |-> dev.node.rdev]
    ELSE SysErr(ENOENT)

\* mknod("/dev/fuse", kind, mode, rdev): the kernel fails with EEXIST on an
\* existing path and clears the umask bits of the mode
NativeMknodFuse(kind, mode, rdev) ==
    IF dev.node.exists THEN SysErr(EEXIST) @@ [node |-> dev.node]
    ELSE [ok |-> TRUE, node |-> Node(kind, AndNot(mode, dev.umask), rdev)]

read_fuse_dev_t ==
    LET fuse_stat == NativeStatFuse
    IN  /\ dev' = [dev EXCEPT !.ret = Returned("read_fuse_dev_t", <<>>,
                                   IF fuse_stat.ok THEN Ok(fuse_stat.st_rdev)
                                   ELSE [ok |-> FALSE, err |-> fuse_stat.err])]
        /\ UNCHANGED <<tree, data, fds, inode_map, opened_files, last, lastEntry, inflight>>

mkfuse_node(d) ==
    LET mode == FuseNodeMode
        res == NativeMknodFuse(S_IFCHR, mode, d)
    IN  /\ dev' = [dev EXCEPT !.node = res.node,
                               !.ret = Returned("mkfuse_node", d,
                                   IF res.ok THEN Ok(<<>>)
                                   ELSE [ok |-> FALSE, err |-> res.err])]
        /\ UNCHANGED <<tree, data, fds, inode_map, opened_files, last, lastEntry, inflight>>

\* another process removes /dev/fuse
NativeUnlinkFuse ==
    /\ dev.node.exists
    /\ dev' = [dev EXCEPT !.node = NoNode]
    /\ UNCHANGED <<tree, data, fds, inode_map, opened_files, last, lastEntry, inflight>>

(***************************************************************************)
(* read seen from the kernel: requests in flight, the handler in two steps *)
(***************************************************************************)
Requests == {1, 2}
ConcOffsets == {0, 1, 2}
ConcSizes == {1, 2}

NoRequests == [r \in {} |-> 0]

\* some handler call holds the filesystem
Borrowed == \E q \in DOMAIN inflight : inflight[q].pc = "sought"

\* handlers that run side by side on a shared filesystem
SharedBorrow == TRUE

\* fn read(&mut self, ...): the call needs the filesystem exclusively, so it
\* starts when no other handler call is running
ExclusiveBorrow == ~Borrowed

\* the kernel sends a read request while others are unanswered
KernelSendsRead(r, fh, offset, size) ==
    /\ r \notin DOMAIN inflight
    /\ inflight' = [q \in DOMAIN inflight \cup {r} |->
                        IF q = r
                        THEN [pc |-> "queued", fh |-> fh, offset |-> offset, size |-> size]
                        ELSE inflight[q]]
    /\ UNCHANGED <<tree, data, fds, inode_map, opened_files, last, lastEntry, dev>>

\* read, up to and including lseek(fd, offset, SeekSet)
read_seek(r) ==
    /\ r \in DOMAIN inflight
    /\ inflight[r].pc = "queued"
    /\ ExclusiveBorrow
    /\ inflight[r].fh < Len(opened_files)
    /\ LET fd == opened_files[inflight[r].fh + 1]
           sk == NativeLseek(fd, inflight[r].offset)
       IN  IF sk.ok
           THEN /\ fds' = [fds EXCEPT ![fd].pos = sk.pos]
                /\ inflight' = [inflight EXCEPT ![r].pc = "sought"]
           ELSE /\ inflight' = [inflight EXCEPT
                                   ![r] = [pc |-> "done", fh |-> @.fh, offset |-> @.offset,
                                           size |-> @.size,
                                           reply |-> ReplyError(ErrorTranslate(sk.err))]]
                /\ UNCHANGED fds
    /\ UNCHANGED <<tree, data, inode_map, opened_files, last, lastEntry, dev>>

\* read, from the buffer resize to the reply: the native read starts where
\* the descriptor stands
read_reply(r) ==
    /\ r \in DOMAIN inflight
    /\ inflight[r].pc = "sought"
    /\ LET fd == opened_files[inflight[r].fh + 1]
           rd == NativeRead(fd, fds[fd].pos, inflight[r].size)
       IN  IF rd.ok
           THEN /\ fds' = [fds EXCEPT ![fd].pos = @ + rd.n]
                /\ inflight' = [inflight EXCEPT
                                   ![r] = [pc |-> "done", fh |-> @.fh, offset |-> @.offset,
                                           size |-> @.size, reply |-> ReplyData(rd.buf)]]
           ELSE /\ inflight' = [inflight EXCEPT
                                   ![r] = [pc |-> "done", fh |-> @.fh, offset |-> @.offset,
                                           size |-> @.size,
                                           reply |-> ReplyError(ErrorTranslate(rd.err))]]
                /\ UNCHANGED fds
    /\ UNCHANGED <<tree, data, inode_map, opened_files, last, lastEntry, dev>>

\* the kernel reads the reply off the channel
KernelTakesReply(r) ==
    /\ r \in DOMAIN inflight
    /\ inflight[r].pc = "done"
    /\ inflight' = [q \in DOMAIN inflight \ {r} |-> inflight[q]]
    /\ UNCHANGED <<tree, data, fds, inode_map, opened_files, last, lastEntry, dev>>

(***************************************************************************)
(* The specification                                                       *)
(***************************************************************************)
InitialData ==
    [f \in RegularFiles \cup {NewFile} |->
        CASE f = "R1" -> <<7, 0, 9>>
          [] f = "R2" -> <<5>>
          [] f = NewFile -> <<>>]

Inos == {FileIno(f) : f \in Files} \cup {1}
Handles == 0..MaxOpen

\* the original tree at mount time: two regular files; a named pipe and an
\* object of no supported type; one regular file under two names
InitialTrees ==
    {[p \in Paths |-> IF p[2] = "a" THEN "R1" ELSE "R2"],
     [p \in Paths |-> IF p[2] = "a" THEN "P" ELSE "U"],
     [p \in Paths |-> "R1"]}

Init ==
    /\ tree \in InitialTrees
    /\ data = InitialData
    /\ fds = [d \in {} |-> 0]
    /\ inode_map = [i \in {} |-> 0]
    /\ opened_files = <<>>
    /\ last = Idle
    /\ lastEntry = NoEntry
    /\ dev = [node |-> Node(S_IFCHR, FuseNodeMode, 2789), umask |-> 0, ret |-> NotCalled]
    /\ inflight = NoRequests

Next ==
    \/ \E parent \in Parents, name \in Names \cup {NulName} : lookup(parent, name)
    \/ forget(1, 1)
    \/ \E ino \in Inos : getattr(ino)
    \/ \E ino \in Inos, flags \in OpenFlags : open(ino, flags)
    \/ \E fh \in Handles, offset \in Offsets, size \in Sizes :
           read(1, fh, offset, size)
    \/ \E fh \in Handles : release(fh)
    \/ opendir(1, O_RDONLY)
    \/ releasedir
    \/ statfs
    \/ setattr \/ readlink \/ mknod \/ mkdir \/ unlink \/ rmdir \/ symlink
    \/ rename \/ link \/ write \/ flush \/ fsync \/ readdir \/ fsyncdir
    \/ setxattr \/ getxattr \/ listxattr \/ removexattr \/ access \/ create
    \/ getlk \/ setlk \/ bmap
    \/ HandlerReturn
    \/ \E path \in Paths : NativeUnlink(path)
    \/ \E src \in Paths, dst \in Paths : NativeRename(src, dst)

Spec == Init /\ [][Next]_vars

\* device bootstrap, before the filesystem is constructed
InitDev ==
    /\ tree = [p \in Paths |-> "R1"]
    /\ data = InitialData
    /\ fds = [d \in {} |-> 0]
    /\ inode_map = [i \in {} |-> 0]
    /\ opened_files = <<>>
    /\ last = Idle
    /\ lastEntry = NoEntry
    /\ dev \in [node : Nodes, umask : Umasks, ret : {NotCalled}]
    /\ inflight = NoRequests

NextDev ==
    \/ read_fuse_dev_t
    \/ \E d \in Devs : mkfuse_node(d)
    \/ NativeUnlinkFuse

SpecDev == InitDev /\ [][NextDev]_vars

\* the filesystem after lookup "a", open, lookup "b", open: handle 0 reads
\* R1 and handle 1 reads R2
InitConc ==
    /\ tree = [p \in Paths |-> IF p[2] = "a" THEN "R1" ELSE "R2"]
    /\ data = InitialData
    /\ fds = [d \in {0, 1} |-> [file |-> IF d = 0 THEN "R1" ELSE "R2",
                                 acc |-> O_RDONLY, pos |-> 0]]
    /\ inode_map = [i \in {FileIno("R1"), FileIno("R2")} |->
                       Append(original_path, IF i = FileIno("R1") THEN "a" ELSE "b")]
    /\ opened_files = <<0, 1>>
    /\ last = Idle
    /\ lastEntry = [some |-> TRUE,
                    attr |-> convert_libc_stat_to_fuse_stat(StatOf("R2")).attr]
    /\ dev = [node |-> Node(S_IFCHR, FuseNodeMode, 2789), umask |-> 0, ret |-> NotCalled]
    /\ inflight = NoRequests

NextConc ==
    \/ \E r \in Requests, fh \in {0, 1}, offset \in ConcOffsets, size \in ConcSizes :
           KernelSendsRead(r, fh, offset, size)
    \/ \E r \in Requests : read_seek(r)
    \/ \E r \in Requests : read_reply(r)
    \/ \E r \in Requests : KernelTakesReply(r)

SpecConc == InitConc /\ [][NextConc]_vars

\* requests whose open flags carry the create or the truncate bit
CreateFlags == {O_RDONLY, O_WRONLY + O_CREAT, O_WRONLY + O_TRUNC}

NextCreate ==
    \/ \E name \in Names : lookup(1, name)
    \/ \E ino \in Inos \cup {FileIno(NewFile)} : getattr(ino)
    \/ \E ino \in Inos \cup {FileIno(NewFile)}, flags \in CreateFlags : open(ino, flags)
    \/ \E fh \in Handles : read(1, fh, 0, 2)
    \/ HandlerReturn
    \/ \E path \in Paths : NativeUnlink(path)

SpecCreate == Init /\ [][NextCreate]_vars

\* an original root with a subdirectory: a -> R1, d -> the directory, and
\* c a name that exists inside d only
TreeNames == {"a", "c", "d"}
NestedPath == <<"orig", "d", "c">>
TreeParents == {1, FileIno(DirFile)}

InitTree ==
    /\ tree = [p \in {Append(original_path, n) : n \in TreeNames} \cup {NestedPath} |->
                   CASE p = Append(original_path, "a") -> "R1"
                     [] p = Append(original_path, "d") -> DirFile
                     [] p = Append(original_path, "c") -> NoFile
                     [] p = NestedPath -> "R2"]
    /\ data = InitialData
    /\ fds = [d \in {} |-> 0]
    /\ inode_map = [i \in {} |-> 0]
    /\ opened_files = <<>>
    /\ last = Idle
    /\ lastEntry = NoEntry
    /\ dev = [node |-> Node(S_IFCHR, FuseNodeMode, 2789), umask |-> 0, ret |-> NotCalled]
    /\ inflight = NoRequests

NextTree ==
    \/ \E parent \in TreeParents, name \in TreeNames : lookup(parent, name)
    \/ \E ino \in {1, FileIno("R1"), FileIno("R2"), FileIno(DirFile)} : getattr(ino)
    \/ \E ino \in {FileIno("R2"), FileIno(DirFile)}, flags \in {O_RDONLY, O_WRONLY} :
           open(ino, flags)
    \/ \E fh \in Handles : read(1, fh, 0, 2)
    \/ HandlerReturn
    \/ NativeUnlink(Append(original_path, "a"))
    \/ NativeRename(NestedPath, Append(original_path, "c"))

SpecTree == InitTree /\ [][NextTree]_vars

(***************************************************************************)
(* Properties                                                              *)
(***************************************************************************)
\* the handler of the request being served returned having replied once
RepliedOnce == ~last.panicked /\ Len(last.replies) = 1
TheReply == last.replies[1]

\* the request being served is a read on a handle that open returned for a
\* regular file opened for reading
ReadOfReadableFile ==
    /\ last.op = "read"
    /\ last.args.fh < Len(opened_files)
    /\ fds[opened_files[last.args.fh + 1]].file \in RegularFiles
    /\ fds[opened_files[last.args.fh + 1]].acc # O_WRONLY
ContentRead == data[fds[opened_files[last.args.fh + 1]].file]

\* C1: read(handle, 0, N) on an opened file of content C replies with
\* exactly the first min(N, |C|) bytes of C and nothing else.
C1_ReadReturnsPrefix ==
    (ReadOfReadableFile /\ last.args.offset = 0)
        => /\ RepliedOnce
           /\ TheReply = ReplyData(SubSeq(ContentRead, 1,
                                          Min(last.args.size, Len(ContentRead))))

\* C2: read at an offset at or beyond the end of the file replies with
\* success and an empty payload.
C2_ReadAtEofIsEmpty ==
    (ReadOfReadableFile /\ last.args.offset >= Len(ContentRead))
        => /\ RepliedOnce
           /\ TheReply = ReplyData(<<>>)

\* C3: getattr of an inode number with no Inode Table entry replies with an
\* error and the handler returns; it does not panic.
C3_GetattrUnknownInodeFails ==
    (last.op = "getattr" /\ last.args.ino \notin DOMAIN inode_map)
        => /\ RepliedOnce
           /\ TheReply.type = "error"

\* C4: read with a handle that is no index of the Open File Table replies
\* with an error and the handler returns; it does not panic.
C4_ReadBadHandleFails ==
    (last.op = "read" /\ last.args.fh >= Len(opened_files))
        => /\ RepliedOnce
           /\ TheReply.type = "error"

\* C5: every handler that carries a reply object replies exactly once
\* before it finishes.
C5_ExactlyOneReply ==
    (last.op \notin {"idle", "forget"}) => RepliedOnce

\* C6: a successful lookup returning record A, followed with the native
\* tree unchanged by getattr(A.ino), gives a record with the same inode,
\* size and type.
C6_LookupGetattrAgree ==
    (last.op = "getattr" /\ lastEntry.some /\ last.args.ino = lastEntry.attr.ino)
        => /\ RepliedOnce
           /\ TheReply.type = "attr"
           /\ TheReply.attr.ino = lastEntry.attr.ino
           /\ TheReply.attr.size = lastEntry.attr.size
           /\ TheReply.attr.kind = lastEntry.attr.kind

\* a getattr of the inode of the latest lookup, a regular file with bytes in
\* it, has been answered with attributes
C6_Witness ==
    /\ last.op = "getattr"
    /\ lastEntry.some
    /\ last.args.ino = lastEntry.attr.ino
    /\ RepliedOnce
    /\ TheReply.type = "attr"
    /\ TheReply.attr.size > 0

\* C7: an inode number returned in an entry or attribute reply is a key of
\* the Inode Table when the reply is sent.
C7_RepliedInodeIsRegistered ==
    (last.op \in {"lookup", "getattr"} /\ RepliedOnce
        /\ TheReply.type \in {"entry", "attr"})
        => TheReply.attr.ino \in DOMAIN inode_map

\* the type bits the native stat of the looked-up name reports
LookedUpStat == NativeStat(Append(original_path, last.args.name))
LookedUpFmt == BitAnd(LookedUpStat.stat.st_mode, S_IFMT)
SupportedFmts ==
    {S_IFBLK, S_IFCHR, S_IFDIR, S_IFIFO, S_IFLNK, S_IFREG, S_IFSOCK}
TypeOfFmt ==
    [fmt \in SupportedFmts |->
        IF fmt = S_IFBLK THEN "BlockDevice"
        ELSE IF fmt = S_IFCHR THEN "CharDevice"
        ELSE IF fmt = S_IFDIR THEN "Directory"
        ELSE IF fmt = S_IFIFO THEN "NamedPipe"
        ELSE IF fmt = S_IFLNK THEN "Symlink"
        ELSE IF fmt = S_IFREG THEN "RegularFile"
        ELSE "Socket"]

\* C8: lookup of a name whose native type is none of the seven supported
\* types replies with an error; of a name whose type is supported, with an
\* entry of that same type.
C8_LookupTypeSupport ==
    (last.op = "lookup" /\ LookedUpStat.ok)
        => /\ RepliedOnce
           /\ IF LookedUpFmt \in SupportedFmts
              THEN /\ TheReply.type = "entry"
                   /\ TheReply.attr.kind = TypeOfFmt[LookedUpFmt]
              ELSE TheReply.type = "error"

\* a lookup of a name of unsupported type has been answered with an error
C8_Witness ==
    /\ last.op = "lookup"
    /\ LookedUpStat.ok
    /\ LookedUpFmt \notin SupportedFmts
    /\ RepliedOnce
    /\ TheReply.type = "error"

\* C9: release replies success for every handle value and changes neither
\* table nor any descriptor, so every read behaves after it as before it.
C9_ReleaseIsNoop ==
    [][(last.op = "idle" /\ last'.op = "release")
        => /\ ~last'.panicked
           /\ last'.replies = <<ReplyOk>>
           /\ inode_map' = inode_map
           /\ opened_files' = opened_files
           /\ \A fh \in Handles, offset \in Offsets, size \in Sizes :
                  ReadOutcome(1, fh, offset, size)' = ReadOutcome(1, fh, offset, size)
      ]_vars

\* a release of a handle that open returned has been served, both tables
\* holding entries
C9_Witness ==
    /\ last.op = "release"
    /\ last.args.fh < Len(opened_files)
    /\ DOMAIN inode_map # {}
    /\ RepliedOnce

\* C10: every unimplemented operation replies ENOSYS and changes neither
\* table.
C10_UnimplementedReplyENOSYS ==
    [][(last.op = "idle" /\ last'.op \in UnimplementedOps)
        => /\ ~last'.panicked
           /\ last'.replies = <<ReplyError(ENOSYS)>>
           /\ inode_map' = inode_map
           /\ opened_files' = opened_files
           /\ fds' = fds
      ]_vars

\* an unimplemented operation has been served with both tables holding
\* entries
C10_Witness ==
    /\ last.op \in UnimplementedOps
    /\ Len(opened_files) > 0
    /\ DOMAIN inode_map # {}
    /\ RepliedOnce

\* the step serves a request: a handler runs from the idle session loop
Serves(op) == last.op = "idle" /\ last'.op = op

\* C11: the handle of a successful open is the position its descriptor was
\* appended at (0 for the first, k-1 for the k-th); no other step, a failed
\* open included, changes the Open File Table.
C11_HandleIsPosition ==
    [][IF Serves("open") /\ last'.replies[1].type = "opened"
       THEN /\ last'.replies[1].fh = Len(opened_files)
            /\ Len(opened_files') = Len(opened_files) + 1
            /\ SubSeq(opened_files', 1, Len(opened_files)) = opened_files
       ELSE opened_files' = opened_files
      ]_vars

\* the second successful open has been answered with handle 1
C11_Witness ==
    /\ last.op = "open"
    /\ RepliedOnce
    /\ TheReply.type = "opened"
    /\ TheReply.fh = 1
    /\ Len(opened_files) = 2

\* the handles, other than fh, that were opened on another file than fh
OtherFileHandles(fh) ==
    {h \in 0..(Len(opened_files) - 1) :
        /\ h # fh
        /\ fds[opened_files[h + 1]].file # fds[opened_files[fh + 1]].file}

\* C12: with two handles opened on two distinct files, a read on one handle
\* carries the bytes of its own file at its own offset and leaves the
\* position of the other handle, and every read outcome on it, unchanged.
C12_ReadsOnDistinctHandlesIsolated ==
    [][(Serves("read") /\ last'.args.fh < Len(opened_files))
        => LET fh == last'.args.fh
               own == data[fds[opened_files[fh + 1]].file]
               off == last'.args.offset
               n == Min(last'.args.size, Max(0, Len(own) - off))
           IN  /\ \A h \in OtherFileHandles(fh) :
                    /\ fds'[opened_files[h + 1]] = fds[opened_files[h + 1]]
                    /\ \A offset \in Offsets, size \in Sizes :
                         ReadOutcome(1, h, offset, size)'.last
                             = ReadOutcome(1, h, offset, size).last
               /\ last'.replies[1].type = "data"
                    => \A i \in 1..n : last'.replies[1].data[i] = own[off + i]
      ]_vars

\* a read has been answered with bytes on one of two handles opened on two
\* distinct files, the other handle standing at another, non-zero position
C12_Witness ==
    /\ last.op = "read"
    /\ last.args.fh < Len(opened_files)
    /\ RepliedOnce
    /\ TheReply.type = "data"
    /\ \E h \in OtherFileHandles(last.args.fh) :
          /\ fds[opened_files[h + 1]].pos > 0
          /\ fds[opened_files[h + 1]].pos # fds[opened_files[last.args.fh + 1]].pos

\* C15: the permission field of the record is the native mode masked to
\* its low 9 bits (octal 777).
C15_PermIsLowNineBits ==
    (last.op = "lookup" /\ RepliedOnce /\ TheReply.type = "entry")
        => TheReply.attr.perm = LookedUpStat.stat.st_mode % 512

HasBit(x, b) == (x \div b) % 2 = 1
\* the incoming flags without the append bit and without bit 0x8000
WithoutAppendAndMagic(f) ==
    f - (IF HasBit(f, O_APPEND) THEN O_APPEND ELSE 0)
      - (IF HasBit(f, MagicFlag) THEN MagicFlag ELSE 0)

\* C16: open hands the native open the incoming flags with O_APPEND and
\* 0x8000 cleared and nothing else changed, a successful reply echoes the
\* incoming flags, and flags the native set cannot represent get an error
\* with no native open.
C16_OpenSanitizesFlags ==
    (last.op = "open")
        => LET f == last.args.flags
               want == WithoutAppendAndMagic(f)
           IN  /\ RepliedOnce
               /\ IF AndNot(want, OFlagAll) # 0
                  THEN /\ TheReply.type = "error"
                       /\ last.native = <<>>
                  ELSE /\ \A i \in 1..Len(last.native) : last.native[i].oflag = want
                       /\ last.args.ino \in DOMAIN inode_map => Len(last.native) = 1
                       /\ TheReply.type = "opened"
                            => /\ TheReply.flags = f
                               /\ Len(last.native) = 1

\* an open with the append and the magic bit set has succeeded: the native
\* open got the access mode alone
C16_Witness ==
    /\ last.op = "open"
    /\ last.args.flags = O_WRONLY + O_APPEND + MagicFlag
    /\ RepliedOnce
    /\ TheReply.type = "opened"
    /\ TheReply.flags = O_WRONLY + O_APPEND + MagicFlag
    /\ last.native[1].oflag = O_WRONLY

\* the request failed: its handler panicked or replied with an error
Failed(l) ==
    \/ l.panicked
    \/ Len(l.replies) = 1 /\ l.replies[1].type = "error"

\* C17: a lookup, getattr, open or read that fails leaves both tables as
\* they were, and the requests after it are served as if it had never been
\* made.
C17_FailuresAreLocal ==
    [][(last.op = "idle" /\ last'.op \in {"lookup", "getattr", "open", "read"}
            /\ Failed(last'))
        => /\ inode_map' = inode_map
           /\ opened_files' = opened_files
           /\ ~last'.panicked
           /\ \A fh \in Handles, offset \in Offsets, size \in Sizes :
                  ReadOutcome(1, fh, offset, size)'.last
                      = ReadOutcome(1, fh, offset, size).last
      ]_vars

\* C20: only a successful lookup writes the Inode Table, and it sets the
\* path of the inode it returns to the original root joined with its name,
\* replacing an earlier path; every other step leaves the table unchanged,
\* so its key set never shrinks.
C20_InodeTableWrittenByLookup ==
    [][IF Serves("lookup") /\ last'.replies[1].type = "entry"
       THEN LET ino == last'.replies[1].attr.ino
            IN  /\ DOMAIN inode_map' = DOMAIN inode_map \cup {ino}
                /\ inode_map'[ino] = Append(original_path, last'.args.name)
                /\ \A i \in DOMAIN inode_map \ {ino} : inode_map'[i] = inode_map[i]
       ELSE inode_map' = inode_map
      ]_vars

\* a lookup of the second name of a file has been answered: the table holds
\* another inode too, and the inode returned now maps to the second name
C20_Witness ==
    /\ last.op = "lookup"
    /\ RepliedOnce
    /\ TheReply.type = "entry"
    /\ last.args.name = "b"
    /\ TheReply.attr.ino = FileIno("R1")
    /\ inode_map[FileIno("R1")] = Append(original_path, "b")
    /\ Cardinality(DOMAIN inode_map) > 1

\* C13: mkfuse_node(D) with no node at the device path creates a
\* character-special node of mode 0666 and device number D (the process
\* running with umask 0), and mkfuse_node(D) with that correct node already
\* there returns Ok.
C13_BootstrapCreatesAndRepeats ==
    [][(dev'.ret # dev.ret /\ dev'.ret.fn = "mkfuse_node")
        => LET correct == Node(S_IFCHR, FuseNodeMode, dev'.ret.arg)
           IN  /\ (~dev.node.exists /\ dev.umask = 0)
                    => dev'.node = correct /\ dev'.ret.res.ok
               /\ dev.node = correct
                    => dev'.node = correct /\ dev'.ret.res.ok
      ]_vars

\* the bytes of its file a read request is due: those at its own offset
DueBytes(q) ==
    LET own == data[fds[opened_files[q.fh + 1]].file]
        n == Min(q.size, Max(0, Len(own) - q.offset))
    IN  [i \in 1..n |-> own[q.offset + i]]

\* C14: read requests on one handle are serialized: no request seeks
\* between the seek and the read of another, the descriptor stands at the
\* offset of the request that has sought until its read, and every read
\* answered with data carries the bytes at its own offset.
C14_SameHandleReadsSerialized ==
    /\ Cardinality({r \in DOMAIN inflight : inflight[r].pc = "sought"}) <= 1
    /\ \A r \in DOMAIN inflight :
         /\ inflight[r].pc = "sought"
              => fds[opened_files[inflight[r].fh + 1]].pos = inflight[r].offset
         /\ (inflight[r].pc = "done" /\ inflight[r].reply.type = "data")
              => SubSeq(inflight[r].reply.data, 1, Len(DueBytes(inflight[r])))
                     = DueBytes(inflight[r])

\* two requests on one handle at different offsets were in flight together:
\* one has its bytes, the other has sought
C14_Witness ==
    \E r \in DOMAIN inflight, q \in DOMAIN inflight :
        /\ r # q
        /\ inflight[r].fh = inflight[q].fh
        /\ inflight[r].offset # inflight[q].offset
        /\ inflight[r].pc = "done"
        /\ inflight[r].reply.type = "data"
        /\ Len(DueBytes(inflight[r])) > 0
        /\ inflight[q].pc = "sought"

\* C18: handling an open never brings a native file into existence and never
\* changes the content of the original tree, whatever the flags and even
\* when the registered path has been removed since the lookup.
C18_OpenNeverCreates ==
    [][Serves("open")
        => /\ \A p \in DOMAIN tree : tree[p] = NoFile => tree'[p] = NoFile
           /\ data' = data
      ]_vars

\* C19: a lookup does not depend on its parent: with any other parent the
\* same request stats the same path (the original root joined with the
\* name), is given the same reply and leaves the same Inode Table; so a name
\* that exists only inside a subdirectory is not found through the inode of
\* that subdirectory.
C19_LookupIgnoresParent ==
    [][Serves("lookup")
        => LET name == last'.args.name
           IN  /\ \A p \in TreeParents :
                    /\ LookupOutcome(p, name).path = Append(original_path, name)
                    /\ LookupOutcome(p, name).replies = last'.replies
                    /\ LookupOutcome(p, name).inode_map = inode_map'
               /\ (/\ last'.args.parent \in DOMAIN inode_map
                   /\ Append(inode_map[last'.args.parent], name) \in DOMAIN tree
                   /\ tree[Append(inode_map[last'.args.parent], name)] # NoFile
                   /\ tree[Append(original_path, name)] = NoFile)
                    => last'.replies = <<ReplyError(ENOENT)>>
      ]_vars

\* the subdirectory is registered, the name exists inside it only, and the
\* lookup with the subdirectory's inode as parent was answered ENOENT
C19_Witness ==
    /\ last.op = "lookup"
    /\ last.args.parent = FileIno(DirFile)
    /\ last.args.name = "c"
    /\ FileIno(DirFile) \in DOMAIN inode_map
    /\ inode_map[FileIno(DirFile)] = Append(original_path, "d")
    /\ tree[NestedPath] = "R2"
    /\ tree[Append(original_path, "c")] = NoFile
    /\ last.replies = <<ReplyError(ENOENT)>>

====
